---- MODULE Spec2Model ----
(***************************************************************************)
(* Model of src/openai.py: the Streamlit career-counsellor script.  One    *)
(* script run handles one form submission: the resume-upload block (lines  *)
(* 107-143) and then the chat block (lines 146-169).  The two remote       *)
(* services (Gemini, the RapidAPI job search) are the points where a run   *)
(* suspends, so a run is cut into steps at exactly those calls.            *)
(*                                                                         *)
(* Text is a sequence of strings.  Utterances and document text are        *)
(* sequences of one-character strings, so that lower(), strip() and the    *)
(* substring test `in` are computed character by character.  Fixed         *)
(* literals of the script (the preamble, the message templates) are single *)
(* elements of such a sequence; a line break is always the element "\n".   *)
(***************************************************************************)
EXTENDS Integers, Sequences, FiniteSets, TLC

VARIABLES
    messages,       \* st.session_state.messages
    run_start,      \* st.session_state.messages as this run found it
    resume_text,    \* st.session_state.resume_text
    pc,             \* position of the current script run
    uploaded_file,  \* st.file_uploader value of this run
    user_text,      \* st.text_input value of this run
    mic_text,       \* speech_to_text value of this run
    submitted,      \* st.form_submit_button value of this run
    lm_request,     \* prompt handed to model.generate_content
    lm_response,    \* what model.generate_content returned or raised
    job_request,    \* params handed to requests.get
    job_response,   \* what requests.get returned or raised
    bot_reply,      \* bot_reply of the chat block
    shown,          \* st.error messages of this run
    uncaught,       \* the exception that ended this run, if any
    calls,          \* remote calls issued in this run, in order
    nSub,           \* script runs started
    nChat,          \* chat blocks entered (line 147 true)
    nDoc            \* runs with an uploaded file

vars == <<messages, run_start, resume_text, pc, uploaded_file, user_text, mic_text,
          submitted, lm_request, lm_response, job_request, job_response,
          bot_reply, shown, uncaught, calls, nSub, nChat, nDoc>>

\* ------------------------------------------------------------------ bounds

MaxSubmissions == 3
MaxPostings == 7
MaxPieces == 3
MaxUnits == 2

\* -------------------------------------------------------------------- text

None == <<"None">>
NoText == <<>>
NL == "\n"
\* the cross mark U+274C that opens every extractor failure string
CROSS == "[x]"

Min(a, b) == IF a < b THEN a ELSE b

\* str.lower() on one character
LowerChar(c) ==
    CASE c = "A" -> "a" [] c = "B" -> "b" [] c = "F" -> "f" [] c = "G" -> "g"
      [] c = "J" -> "j" [] c = "O" -> "o"
      [] OTHER -> c

Lower(s) == [i \in 1..Len(s) |-> LowerChar(s[i])]

\* Python's `k in s` on strings: k occurs in s as a contiguous substring
Contains(k, s) ==
    \E i \in 0..(Len(s) - Len(k)) : SubSeq(s, i + 1, i + Len(k)) = k

IsSpace(c) == c \in {" ", NL, "\t"}

RECURSIVE LStrip(_)
LStrip(s) == IF s # <<>> /\ IsSpace(Head(s)) THEN LStrip(Tail(s)) ELSE s

RECURSIVE RStrip(_)
RStrip(s) ==
    IF s # <<>> /\ IsSpace(s[Len(s)]) THEN RStrip(SubSeq(s, 1, Len(s) - 1)) ELSE s

\* str.strip()
Strip(s) == RStrip(LStrip(s))

\* sep.join(parts)
RECURSIVE Join(_, _)
Join(sep, parts) ==
    IF parts = <<>> THEN <<>>
    ELSE IF Len(parts) = 1 THEN parts[1]
    ELSE parts[1] \o sep \o Join(sep, Tail(parts))

\* Python truthiness of a str-or-None value
Truthy(s) == s # None /\ s # NoText

\* the operands the other way round: `mic_text or user_text`
Or_Swapped(a, b) == IF Truthy(b) THEN b ELSE a

\* Python's `a or b`
Or(a, b) == IF Truthy(a) THEN a ELSE b

\* --------------------------------------------------------------- documents

PDF_TYPE == "application/pdf"
DOCX_TYPE == "application/vnd.openxmlformats-officedocument.wordprocessingml.document"

\* An uploaded file: its declared media type, whether its bytes parse, and
\* the text of its paragraphs (DOCX) or pages (PDF; None for a page with no
\* extractable text).
File(type, readable, units) ==
    [type |-> type, readable |-> readable, units |-> units]

NonBlank(p) == Truthy(p) /\ Strip(p) # <<>>

extract_text_from_docx(file) ==
    IF ~file.readable
    THEN <<CROSS, " Error reading DOCX: ", "<e>">>
    ELSE LET text == Join(<<NL>>, SelectSeq(file.units, NonBlank))
         IN  IF Strip(text) = <<>>
             THEN <<CROSS, " No text found in DOCX.">>
             ELSE text

RECURSIVE PdfAllText(_)
PdfAllText(pages) ==
    IF pages = <<>> THEN <<>>
    ELSE (IF Truthy(Head(pages)) THEN Head(pages) \o <<NL>> ELSE <<>>)
         \o PdfAllText(Tail(pages))

\* the empty result is returned as it is
extract_text_from_pdf_NoEmptyCheck(file) ==
    IF ~file.readable
    THEN <<CROSS, " Error reading PDF: ", "<e>">>
    ELSE PdfAllText(file.units)

extract_text_from_pdf(file) ==
    IF ~file.readable
    THEN <<CROSS, " Error reading PDF: ", "<e>">>
    ELSE LET all_text == PdfAllText(file.units)
         IN  IF Strip(all_text) = <<>>
             THEN <<CROSS, " No text found in PDF (might be scanned image).">>
             ELSE all_text

\* lines 111-116: the value of st.session_state.resume_text after the branch
ResumeTextAfterUpload(file, old) ==
    IF file.type = PDF_TYPE THEN extract_text_from_pdf(file)
    ELSE IF file.type = DOCX_TYPE THEN extract_text_from_docx(file)
    ELSE old

\* line 121
Usable(text) == Truthy(text) /\ ~Contains(<<CROSS>>, text)

\* lines 125-134
AnalysisPrompt(text) == <<"<analysis template>", NL>> \o text \o <<NL>>

Documents ==
    { File(PDF_TYPE, TRUE, << <<"r">> >>),
      File(PDF_TYPE, TRUE, << None >>),
      File(PDF_TYPE, FALSE, << >>),
      File(DOCX_TYPE, TRUE, << <<"s">> >>),
      File(DOCX_TYPE, TRUE, << <<" ">> >>),
      File("application/octet-stream", TRUE, << <<"q">> >>) }

\* uploaded_file is None
NoFile == File("None", FALSE, << >>)

\* -------------------------------------------------------------- job search

JobFields ==
    {"job_title", "employer_name", "job_city", "job_country", "job_apply_link"}

\* jobs[:5], line 80
MaxShown == 5

Posting(t) ==
    [job_title |-> "title-" \o t, employer_name |-> "employer-" \o t,
     job_city |-> "city-" \o t, job_country |-> "country-" \o t,
     job_apply_link |-> "link-" \o t]

\* a posting of the provider that lacks the apply link
Partial(t) ==
    [job_title |-> "title-" \o t, employer_name |-> "employer-" \o t,
     job_city |-> "city-" \o t, job_country |-> "country-" \o t]

\* What requests.get gives back: a raised transport fault, or a response
\* with a status code and a body.  json is "invalid" when the body does not
\* parse, "object" when it parses to a JSON object; has_data tells whether
\* the object has a "data" key, data is its value.
Fault == [kind |-> "fault", status |-> 0, json |-> "invalid",
          has_data |-> FALSE, data |-> << >>]

Http(status, json, has_data, data) ==
    [kind |-> "http", status |-> status, json |-> json,
     has_data |-> has_data, data |-> data]

\* line 79, one element of the list comprehension
FormatJob(job) ==
    <<"**", job.job_title, "** at ", job.employer_name, NL, "@ ", job.job_city,
      ", ", job.job_country, NL, "[Apply Here](", job.job_apply_link, ")">>

FailedToFetch(e) == <<"! Failed to fetch jobs: ", e>>
NoJobsFound == <<"No jobs found for this query.">>
JobsHeader == <<"Here are some job openings:", NL, NL>>

\* the slice is left out
FirstJobs_All(jobs) == jobs

\* jobs[:5]
FirstJobs(jobs) == SubSeq(jobs, 1, Min(MaxShown, Len(jobs)))

\* the empty result is not told apart from a list
NoJobs_Never(jobs) == FALSE

\* line 76: `not jobs`
NoJobs(jobs) == jobs = << >>

\* lines 73-84: the string search_jobs returns, given what requests.get did
search_jobs(response) ==
    IF response.kind = "fault" THEN FailedToFetch("<transport fault>")
    ELSE IF response.json # "object" THEN FailedToFetch("<JSONDecodeError>")
    ELSE LET jobs == IF response.has_data THEN response.data ELSE << >>
             shownJobs == FirstJobs(jobs)
         IN  IF NoJobs(jobs) THEN NoJobsFound
             ELSE IF \E i \in 1..Len(shownJobs) :
                        ~(JobFields \subseteq DOMAIN shownJobs[i])
             THEN FailedToFetch("<KeyError>")
             ELSE JobsHeader
                  \o Join(<<NL, NL>>,
                          [i \in 1..Len(shownJobs) |-> FormatJob(shownJobs[i])])

\* the lower-cased utterance is sent: search_jobs(user_input.lower())
JobRequest_Lowered(query) ==
    [query |-> Lower(query), location |-> "India", page |-> "1",
     num_pages |-> "1"]

\* lines 67-68
JobRequest(query) ==
    [query |-> query, location |-> "India", page |-> "1", num_pages |-> "1"]

NoRequest == [query |-> << >>, location |-> "", page |-> "", num_pages |-> ""]

ProviderResponses ==
    { Fault,
      Http(200, "invalid", FALSE, << >>),
      Http(200, "object", TRUE, << >>),
      Http(200, "object", FALSE, << >>),
      Http(403, "object", FALSE, << >>),
      Http(200, "object", TRUE, << Posting("a"), Posting("b") >>),
      Http(200, "object", TRUE, << Partial("a") >>) }

\* ------------------------------------------------------------ conversation

DOMAIN_PROMPT == "<domain preamble>"

USER == "user"
ASSISTANT == "assistant"

Turn(role, content) == [role |-> role, content |-> content]

\* str.capitalize() on the two role names
Capitalize(role) == IF role = USER THEN "User" ELSE "Assistant"

\* lines 151-153
ChatHistory(msgs) ==
    Join(<<NL>>,
         [i \in 1..Len(msgs) |->
             <<Capitalize(msgs[i].role), ": ">> \o msgs[i].content])

\* line 154
FullPrompt(msgs, user_input) ==
    <<DOMAIN_PROMPT, NL, NL>> \o ChatHistory(msgs) \o <<NL, "User", ": ">>
        \o user_input

job_keywords ==
    << <<"j","o","b">>, <<"j","o","b","s">>,
       <<"o","p","e","n","i","n","g","s">>,
       <<"o","p","p","o","r","t","u","n","i","t","y">>,
       <<"v","a","c","a","n","c","y">> >>

search_keywords ==
    << <<"f","i","n","d">>, <<"s","e","a","r","c","h">>,
       <<"l","o","o","k","i","n","g">>, <<"g","e","t">>,
       <<"a","p","p","l","y">> >>

\* any(k in text for k in keywords)
AnyIn(keywords, text) ==
    \E i \in 1..Len(keywords) : Contains(keywords[i], text)

\* the comparison without lower()
IsJobSearch_CaseSensitive(user_input) ==
    AnyIn(job_keywords, user_input) /\ AnyIn(search_keywords, user_input)

\* line 159
IsJobSearch(user_input) ==
    AnyIn(job_keywords, Lower(user_input))
        /\ AnyIn(search_keywords, Lower(user_input))

\* keyword arguments st.chat_message accepts besides the name
ChatMessageKeywords == {"avatar"}

\* line 168 passes the keyword Avatar; a keyword the callee does not have
\* raises TypeError before the call's body runs
AssistantKeyword == "Avatar"

RenderRaises(keyword) == keyword \notin ChatMessageKeywords

\* the USER turn is not recorded before the call
AppendUserTurn_Late(msgs, user_input) == msgs

\* lines 148-149
AppendUserTurn(msgs, user_input) == Append(msgs, Turn(USER, user_input))

\* lines 168-169: the append of line 169 runs only if line 168 returned
HistoryAfterReply(msgs, reply) ==
    IF RenderRaises(AssistantKeyword) THEN msgs
    ELSE Append(msgs, Turn(ASSISTANT, reply))

\* ---------------------------------------------------------- language model

\* model.generate_content(prompt): a response with text, or a raised fault
LmOk(text) == [ok |-> TRUE, text |-> text]
LmFault == [ok |-> FALSE, text |-> <<"<fault>">>]
LmNone == [ok |-> FALSE, text |-> None]

LMOutcomes == { LmOk(<<"t">>), LmFault }

\* the except branch records the error as a turn too
HistoryAfterAnalysis_AlwaysAppends(msgs, res) ==
    Append(msgs, Turn(ASSISTANT, res.text))

\* the list is assigned, not appended to
HistoryAfterAnalysis_Assigns(msgs, res) ==
    IF res.ok THEN <<Turn(ASSISTANT, res.text)>> ELSE msgs

\* lines 136-141: the history after the analysis call
HistoryAfterAnalysis(msgs, res) ==
    IF res.ok THEN Append(msgs, Turn(ASSISTANT, res.text)) ELSE msgs

\* lines 162-166
ChatReply(res) == IF res.ok THEN res.text ELSE <<"! Error: ">> \o res.text

Call(svc, by) == [svc |-> svc, by |-> by]

NoResponse == [kind |-> "none", status |-> 0, json |-> "invalid",
               has_data |-> FALSE, data |-> << >>]

\* ------------------------------------------------------------------ inputs

U_JOB == <<"G","e","t"," ","j","o","b">>
U_GEN == <<"h","i">>
U_MIC == <<"j","o","b","s">>

TypedTexts == { NoText, U_JOB, U_GEN }
MicTexts == { None, U_MIC }

\* line 146
UserInput == Or(user_text, mic_text)

\* ----------------------------------------------------------------- actions

Init ==
    /\ messages = << >>
    /\ run_start = << >>
    /\ resume_text = NoText
    /\ pc = "idle"
    /\ uploaded_file = NoFile
    /\ user_text = NoText
    /\ mic_text = None
    /\ submitted = FALSE
    /\ lm_request = << >>
    /\ lm_response = LmNone
    /\ job_request = NoRequest
    /\ job_response = NoResponse
    /\ bot_reply = << >>
    /\ shown = << >>
    /\ uncaught = "none"
    /\ calls = << >>
    /\ nSub = 0
    /\ nChat = 0
    /\ nDoc = 0

\* A script run starts (lines 92-104 deliver the form's values).  The form
\* hands its widgets' values over only on a submit; a run that is not a
\* submit sees the empty defaults.
Submit ==
    /\ pc = "idle"
    /\ nSub < MaxSubmissions
    /\ \E file \in Documents \cup {NoFile}, text \in TypedTexts,
          mic \in MicTexts, sub \in BOOLEAN :
          /\ ~sub => (file = NoFile /\ text = NoText /\ mic = None)
          /\ uploaded_file' = file
          /\ user_text' = text
          /\ mic_text' = mic
          /\ submitted' = sub
          /\ nDoc' = IF file # NoFile THEN nDoc + 1 ELSE nDoc
    /\ nSub' = nSub + 1
    /\ pc' = "upload"
    /\ lm_request' = << >>
    /\ lm_response' = LmNone
    /\ job_request' = NoRequest
    /\ job_response' = NoResponse
    /\ bot_reply' = << >>
    /\ shown' = << >>
    /\ uncaught' = "none"
    /\ calls' = << >>
    /\ run_start' = messages
    /\ UNCHANGED <<messages, resume_text, nChat>>

\* lines 107-135, up to the call of line 137
ResumeUpload ==
    /\ pc = "upload"
    /\ IF uploaded_file = NoFile
       THEN /\ pc' = "chat"
            /\ UNCHANGED <<resume_text, lm_request, shown, calls>>
       ELSE LET text == ResumeTextAfterUpload(uploaded_file, resume_text)
                shown1 == IF uploaded_file.type \in {PDF_TYPE, DOCX_TYPE}
                          THEN shown
                          ELSE Append(shown, "Unsupported file type.")
            IN  /\ resume_text' = text
                /\ IF Usable(text)
                   THEN /\ lm_request' = AnalysisPrompt(text)
                        /\ calls' = Append(calls, Call("lm", "doc"))
                        /\ shown' = shown1
                        /\ pc' = "analyzing"
                   ELSE /\ shown' = Append(shown1,
                               "Failed to extract usable text from resume.")
                        /\ pc' = "chat"
                        /\ UNCHANGED <<lm_request, calls>>
    /\ UNCHANGED <<messages, run_start, uploaded_file, user_text, mic_text, submitted,
                   lm_response, job_request, job_response, bot_reply,
                   uncaught, nSub, nChat, nDoc>>

\* lines 137-141: model.generate_content returns or raises
AnalysisReturn ==
    /\ pc = "analyzing"
    /\ \E res \in LMOutcomes :
          /\ lm_response' = res
          /\ messages' = HistoryAfterAnalysis(messages, res)
          /\ shown' = IF res.ok THEN shown ELSE Append(shown, "Gemini error")
    /\ pc' = "chat"
    /\ UNCHANGED <<run_start, resume_text, uploaded_file, user_text, mic_text, submitted,
                   lm_request, job_request, job_response, bot_reply, uncaught,
                   calls, nSub, nChat, nDoc>>

\* lines 146-161, up to the call of line 160 (requests.get, line 74) or of
\* line 163
ChatSubmission ==
    /\ pc = "chat"
    /\ IF ~(submitted /\ Truthy(UserInput))
       THEN /\ pc' = "idle"
            /\ UNCHANGED <<messages, lm_request, job_request, calls, nChat>>
       ELSE LET msgs == AppendUserTurn(messages, UserInput)
            IN  /\ messages' = msgs
                /\ nChat' = nChat + 1
                /\ IF IsJobSearch(UserInput)
                   THEN /\ job_request' = JobRequest(UserInput)
                        /\ calls' = Append(calls, Call("jobs", "chat"))
                        /\ pc' = "searching"
                        /\ UNCHANGED lm_request
                   ELSE /\ lm_request' = FullPrompt(msgs, UserInput)
                        /\ calls' = Append(calls, Call("lm", "chat"))
                        /\ pc' = "generating"
                        /\ UNCHANGED job_request
    /\ UNCHANGED <<run_start, resume_text, uploaded_file, user_text, mic_text, submitted,
                   lm_response, job_response, bot_reply, shown, uncaught,
                   nSub, nDoc>>

\* lines 168-169 and the end of the run
Reply(reply) ==
    /\ bot_reply' = reply
    /\ messages' = HistoryAfterReply(messages, reply)
    /\ uncaught' = IF RenderRaises(AssistantKeyword) THEN "TypeError" ELSE "none"
    /\ pc' = "idle"

\* lines 74-84 and 168-169: requests.get returns or raises
SearchReturn(responses) ==
    /\ pc = "searching"
    /\ \E response \in responses :
          /\ job_response' = response
          /\ Reply(search_jobs(response))
    /\ UNCHANGED <<run_start, resume_text, uploaded_file, user_text, mic_text, submitted,
                   lm_request, lm_response, job_request, shown, calls, nSub,
                   nChat, nDoc>>

\* lines 163-169: model.generate_content returns or raises
GenerateReturn ==
    /\ pc = "generating"
    /\ \E res \in LMOutcomes :
          /\ lm_response' = res
          /\ Reply(ChatReply(res))
    /\ UNCHANGED <<run_start, resume_text, uploaded_file, user_text, mic_text, submitted,
                   lm_request, job_request, job_response, shown, calls, nSub,
                   nChat, nDoc>>

Search == SearchReturn(ProviderResponses)

Next ==
    \/ Submit
    \/ ResumeUpload
    \/ AnalysisReturn
    \/ ChatSubmission
    \/ Search
    \/ GenerateReturn

Spec == Init /\ [][Next]_vars

\* ------------------------------------------------------------------ claims

Range(f) == { f[i] : i \in DOMAIN f }

TurnsOf(role, msgs) == { i \in 1..Len(msgs) : msgs[i].role = role }

\* this run reached the chat block and entered it (line 147 was true)
ChatRan == pc = "idle" /\ submitted /\ Truthy(UserInput)

\* C1: every submission that carries user text appends, after its USER
\* turn, exactly one ASSISTANT turn holding the reply, and no exception
\* ends the run; with text-only submissions the history is USER, ASSISTANT,
\* USER, ASSISTANT, ... with two turns per submission.
C1_OneAssistantTurnPerText ==
    /\ ChatRan =>
          /\ uncaught = "none"
          /\ Len(messages) >= 2
          /\ messages[Len(messages) - 1] = Turn(USER, UserInput)
          /\ messages[Len(messages)] = Turn(ASSISTANT, bot_reply)
    /\ (pc = "idle" /\ nDoc = 0) =>
          /\ Len(messages) = 2 * nChat
          /\ \A i \in 1..Len(messages) :
                messages[i].role = IF i % 2 = 1 THEN USER ELSE ASSISTANT

\* C2: between runs, every USER turn of the history is followed by an
\* ASSISTANT turn, and the next USER turn, if any, comes right after that
\* one ASSISTANT turn.
C2_UserTurnsPaired ==
    pc = "idle" =>
        \A i \in TurnsOf(USER, messages) :
            /\ i < Len(messages)
            /\ messages[i + 1].role = ASSISTANT
            /\ \A j \in TurnsOf(USER, messages) : j > i => j >= i + 2
            /\ (\E j \in TurnsOf(USER, messages) : j > i)
                   => messages[i + 2].role = USER

\* C3: while the chat block's remote call is in flight the USER turn with
\* the utterance is already the last turn of the history and no response
\* has arrived; once the run is over, whatever the call returned or
\* raised, that USER turn is still the last USER turn of the history, and
\* the history holds one USER turn per chat block entered.
C3_UserTurnFirst ==
    /\ Cardinality(TurnsOf(USER, messages)) = nChat
    /\ pc \in {"searching", "generating"} =>
          /\ messages # << >>
          /\ messages[Len(messages)] = Turn(USER, UserInput)
          /\ Len(messages) > Len(run_start)
          /\ SubSeq(messages, 1, Len(run_start)) = run_start
          /\ Call("lm", "doc") \notin Range(calls) => lm_response = LmNone
          /\ job_response = NoResponse
    /\ ChatRan =>
          \E i \in TurnsOf(USER, messages) :
              /\ messages[i] = Turn(USER, UserInput)
              /\ i > Len(run_start)
              /\ \A j \in TurnsOf(USER, messages) : j <= i

\* C3 witness: a chat block whose language-model call raised has ended,
\* and the utterance is in the history.
C3_Witness ==
    /\ ChatRan
    /\ Call("lm", "chat") \in Range(calls)
    /\ lm_response = LmFault
    /\ Turn(USER, UserInput) \in Range(messages)

\* the claim's "fails extraction": unsupported media type, a parser or I/O
\* exception, or no text left after trimming
DocText(file) ==
    IF file.type = PDF_TYPE THEN PdfAllText(file.units)
    ELSE Join(<<NL>>, SelectSeq(file.units, NonBlank))

ExtractionFails(file) ==
    \/ file.type \notin {PDF_TYPE, DOCX_TYPE}
    \/ ~file.readable
    \/ Strip(DocText(file)) = << >>

\* C4: a run whose attached document fails extraction issues no
\* language-model call from the upload block and leaves the history as the
\* run found it until the chat block starts; the failure is shown.
C4_FailedExtractionStops ==
    (uploaded_file # NoFile /\ ExtractionFails(uploaded_file)
        /\ pc \in {"analyzing", "chat"}) =>
        /\ pc = "chat"
        /\ Call("lm", "doc") \notin Range(calls)
        /\ messages = run_start
        /\ shown # << >>

\* C5: when the upload block's language-model call has returned, the
\* history is the history the run found plus one ASSISTANT turn holding the
\* generated text if the call succeeded, and exactly the history the run
\* found, with the error shown, if the call raised; the resume text kept
\* for the session is then still the usable text that was analysed.
C5_AnalysisTurnOnlyOnSuccess ==
    (pc = "chat" /\ Call("lm", "doc") \in Range(calls)) =>
        /\ lm_response # LmNone
        /\ lm_response.ok =>
              /\ messages = Append(run_start, Turn(ASSISTANT, lm_response.text))
              /\ shown \in { << >>, <<"Unsupported file type.">> }
        /\ ~lm_response.ok =>
              /\ messages = run_start
              /\ shown[Len(shown)] = "Gemini error"
        /\ lm_request = AnalysisPrompt(resume_text)

\* C5 witness: the analysis call of a run raised, after an earlier run had
\* put turns into the history.
C5_Witness ==
    /\ pc = "chat"
    /\ Call("lm", "doc") \in Range(calls)
    /\ lm_response = LmFault
    /\ messages = run_start
    /\ messages # << >>

\* ------------------------------------------- the routing rule on its own

\* Utterances for the routing rule: up to MaxPieces pieces written one
\* after the other, where a piece is a keyword, a keyword in capitals, a
\* blank, or a filler that turns a keyword into a longer word.
Pieces ==
    Range(job_keywords) \cup Range(search_keywords) \cup
    { <<" ">>, <<"f","o","r">>, <<"J","O","B">>, <<"F","i","n","d">> }

RECURSIVE Flatten(_)
Flatten(ps) == IF ps = << >> THEN << >> ELSE Head(ps) \o Flatten(Tail(ps))

RoutingInputs ==
    { Flatten(ps) : ps \in UNION { [1..n -> Pieces] : n \in 1..MaxPieces } }

\* A first run in which only text was typed, at line 146.
InitRouting ==
    /\ messages = << >>
    /\ run_start = << >>
    /\ resume_text = NoText
    /\ pc = "chat"
    /\ uploaded_file = NoFile
    /\ user_text \in RoutingInputs
    /\ mic_text = None
    /\ submitted = TRUE
    /\ lm_request = << >>
    /\ lm_response = LmNone
    /\ job_request = NoRequest
    /\ job_response = NoResponse
    /\ bot_reply = << >>
    /\ shown = << >>
    /\ uncaught = "none"
    /\ calls = << >>
    /\ nSub = 1
    /\ nChat = 0
    /\ nDoc = 0

SpecRouting == InitRouting /\ [][ChatSubmission]_vars

\* the two vocabularies as the claim gives them
JobNouns ==
    { <<"j","o","b">>, <<"j","o","b","s">>,
      <<"o","p","e","n","i","n","g","s">>,
      <<"o","p","p","o","r","t","u","n","i","t","y">>,
      <<"v","a","c","a","n","c","y">> }

ActionVerbs ==
    { <<"f","i","n","d">>, <<"s","e","a","r","c","h">>,
      <<"l","o","o","k","i","n","g">>, <<"g","e","t">>,
      <<"a","p","p","l","y">> }

\* the words of an utterance: its maximal runs of non-blank characters
RECURSIVE Words(_, _)
Words(u, word) ==
    IF u = << >> THEN (IF word = << >> THEN {} ELSE {word})
    ELSE IF IsSpace(Head(u))
         THEN (IF word = << >> THEN {} ELSE {word}) \cup Words(Tail(u), << >>)
         ELSE Words(Tail(u), Append(word, Head(u)))

\* w is written in u from position i on, letter case ignored
WrittenAt(w, u, i) ==
    /\ i + Len(w) - 1 <= Len(u)
    /\ \A j \in 1..Len(w) : LowerChar(u[i + j - 1]) = w[j]

Occurs(w, u) == \E i \in 1..Len(u) : WrittenAt(w, u, i)

Routed == pc \in {"searching", "generating"}

\* C6 as stated: the decision is JOB_SEARCH exactly when one of the words
\* of the utterance, case ignored, is a job noun and one is an action verb.
C6_TokenRule ==
    Routed =>
        (pc = "searching" <=>
            /\ Words(Lower(UserInput), << >>) \cap JobNouns # {}
            /\ Words(Lower(UserInput), << >>) \cap ActionVerbs # {})

\* C6 amended: the decision is JOB_SEARCH exactly when, case ignored, a job
\* noun is written somewhere in the utterance and an action verb is written
\* somewhere in it, inside a longer word or not.
C6_SubstringRule ==
    Routed =>
        (pc = "searching" <=>
            /\ \E w \in JobNouns : Occurs(w, UserInput)
            /\ \E w \in ActionVerbs : Occurs(w, UserInput))

\* C6 witness: an utterance with capitals in which the keywords are parts
\* of longer words is routed to the job search.
C6_Witness ==
    /\ pc = "searching"
    /\ Lower(UserInput) # UserInput
    /\ Words(Lower(UserInput), << >>) \cap (JobNouns \cup ActionVerbs) = {}

\* ------------------------------------------------- the job-search replies

SearchRan == pc = "idle" /\ job_response # NoResponse

IsErrorReply(reply) == reply # << >> /\ reply[1] = "! Failed to fetch jobs: "

\* the claim's failed call: a transport fault, a status outside 2xx, or a
\* body that is not the JSON the provider documents (no JSON object, or a
\* posting without one of its five fields)
CallFailed(response) ==
    \/ response.kind = "fault"
    \/ response.status \notin 200..299
    \/ response.json # "object"
    \/ \E i \in 1..Len(response.data) :
           ~(JobFields \subseteq DOMAIN response.data[i])

\* C7: when the job-search call failed (transport fault, non-success
\* status, malformed body) the reply of the turn is the error message with
\* the failure's description, not the 'no jobs found' message and not a
\* list.
C7_FailedSearchGivesError ==
    (SearchRan /\ CallFailed(job_response)) =>
        /\ IsErrorReply(bot_reply)
        /\ Len(bot_reply) = 2
        /\ bot_reply # <<"No jobs found for this query.">>

\* the lines of a text: its pieces between line breaks
RECURSIVE Lines(_, _)
Lines(text, line) ==
    IF text = << >> THEN <<line>>
    ELSE IF Head(text) = NL THEN <<line>> \o Lines(Tail(text), << >>)
         ELSE Lines(Tail(text), Append(line, Head(text)))

HistoryBeforeTurn == SubSeq(messages, 1, Len(messages) - 1)

\* C8: the prompt of a GENERAL_QUERY turn is the preamble, the history as
\* it was before the turn, one role-labelled line per turn in order, and
\* then the line 'User: <utterance>'; with no history before the turn it
\* is the preamble, an empty line and that single line.
C8_PromptHoldsUtteranceOnce ==
    pc = "generating" =>
        /\ lm_request =
              <<"<domain preamble>", NL, NL>>
              \o (IF HistoryBeforeTurn = << >> THEN << >>
                  ELSE ChatHistory(HistoryBeforeTurn) \o <<NL>>)
              \o <<"User", ": ">> \o UserInput
        /\ HistoryBeforeTurn = << >> =>
              Lines(lm_request, << >>) =
                  << <<"<domain preamble>">>, << >>,
                     <<"User", ": ">> \o UserInput >>

\* C10: a response whose JSON object has no `data` key, or an empty one,
\* is answered with the fixed 'no jobs found' message, which is not an
\* error message.
C10_EmptyDataIsNoJobs ==
    (SearchRan /\ job_response.kind = "http" /\ job_response.json = "object"
        /\ (~job_response.has_data \/ job_response.data = << >>)) =>
        /\ bot_reply = <<"No jobs found for this query.">>
        /\ ~IsErrorReply(bot_reply)

\* C10 witness: a successful response without a `data` key was answered.
C10_Witness ==
    /\ SearchRan
    /\ job_response = Http(200, "object", FALSE, << >>)
    /\ bot_reply = <<"No jobs found for this query.">>

\* ------------------------------------------ the listing of the postings

\* Responses for the listing: every sequence of up to MaxPostings complete
\* postings, drawn from two different ones.
ListingResponses ==
    { Http(200, "object", TRUE, d) :
        d \in UNION { [1..n -> {Posting("a"), Posting("b")}] :
                        n \in 0..MaxPostings } }

\* A first run in which "Get job" was typed, suspended in requests.get.
InitListing ==
    /\ messages = << Turn(USER, U_JOB) >>
    /\ run_start = << >>
    /\ resume_text = NoText
    /\ pc = "searching"
    /\ uploaded_file = NoFile
    /\ user_text = U_JOB
    /\ mic_text = None
    /\ submitted = TRUE
    /\ lm_request = << >>
    /\ lm_response = LmNone
    /\ job_request = JobRequest(U_JOB)
    /\ job_response = NoResponse
    /\ bot_reply = << >>
    /\ shown = << >>
    /\ uncaught = "none"
    /\ calls = << Call("jobs", "chat") >>
    /\ nSub = 1
    /\ nChat = 1
    /\ nDoc = 0

Listing == SearchReturn(ListingResponses)

SpecListing == InitListing /\ [][Listing]_vars

\* the postings a reply lists, read back from its text: after the header
\* each entry takes 13 elements and two line breaks part the entries
EntryCount(reply) == (Len(reply) - 1) \div 15

ListedPostings(reply) ==
    [k \in 1..EntryCount(reply) |->
        LET base == 3 + (k - 1) * 15
        IN  [job_title |-> reply[base + 2], employer_name |-> reply[base + 4],
             job_city |-> reply[base + 7], job_country |-> reply[base + 9],
             job_apply_link |-> reply[base + 12]]]

\* C9: the reply lists exactly the first min(5, n) of the n postings the
\* provider returned, in the provider's order.
C9_FirstFiveInOrder ==
    SearchRan =>
        LET n == Len(job_response.data)
        IN  ListedPostings(bot_reply) =
                SubSeq(job_response.data, 1, IF n < 5 THEN n ELSE 5)

\* C9 witness: seven postings, not all alike, were returned and five are
\* listed.
C9_Witness ==
    /\ SearchRan
    /\ Len(job_response.data) = 7
    /\ job_response.data[1] # job_response.data[2]
    /\ Len(ListedPostings(bot_reply)) = 5

\* ------------------------------------------------------- fault containment

\* a fault was raised in this run: the parser on the document, requests.get
\* or response.json() or a posting's missing field in search_jobs, or
\* model.generate_content
FaultInRun ==
    \/ (uploaded_file # NoFile /\ uploaded_file.type \in {PDF_TYPE, DOCX_TYPE}
           /\ ~uploaded_file.readable)
    \/ lm_response = LmFault
    \/ job_response.kind = "fault"
    \/ (job_response.kind = "http" /\ job_response.json # "object")
    \/ (job_response.kind = "http" /\ job_response.json = "object"
           /\ IsErrorReply(bot_reply))

\* C11: a run in which extraction, the job-search call or a language-model
\* call raised still ends without an uncaught exception, and every such
\* fault has become a message the user sees: an st.error of the upload
\* block, or the chat block's error reply as the last ASSISTANT turn.
C11_FaultsBecomeMessages ==
    (pc = "idle" /\ FaultInRun) =>
        /\ uncaught = "none"
        /\ (uploaded_file # NoFile /\ ~uploaded_file.readable) => shown # << >>
        /\ (Call("lm", "doc") \in Range(calls)
               /\ Call("lm", "chat") \notin Range(calls)
               /\ lm_response = LmFault) => "Gemini error" \in Range(shown)
        /\ (ChatRan /\ (lm_response = LmFault \/ job_response # NoResponse))
               => messages[Len(messages)] = Turn(ASSISTANT, bot_reply)

\* ------------------------------------------- the upload block on its own

\* Documents for the upload block: any of the three media types, readable
\* with up to MaxUnits pages or paragraphs, or unreadable.  A page is None
\* when it has no extractable text; a text may be empty, blank, or hold the
\* cross mark.
ParagraphTexts == { << >>, <<" ">>, <<"r">>, <<" ", "r">>, <<CROSS>> }
PageTexts == ParagraphTexts \cup { None }

UnitSeqs(texts) == UNION { [1..n -> texts] : n \in 0..MaxUnits }

UploadDocuments ==
    { File(PDF_TYPE, TRUE, u) : u \in UnitSeqs(PageTexts) }
    \cup { File(t, TRUE, u) :
             t \in {DOCX_TYPE, "application/octet-stream"},
             u \in UnitSeqs(ParagraphTexts) }
    \cup { File(t, FALSE, << >>) : t \in {PDF_TYPE, DOCX_TYPE} }

\* A run with a document and no text, at line 107: the first run of a
\* session, or the run after one whose PDF with the page "r" was extracted
\* and whose analysis call raised.
InitUpload ==
    /\ messages = << >>
    /\ run_start = << >>
    /\ \E first \in BOOLEAN :
          /\ resume_text = (IF first THEN NoText ELSE <<"r", NL>>)
          /\ nSub = (IF first THEN 1 ELSE 2)
          /\ nDoc = (IF first THEN 1 ELSE 2)
    /\ pc = "upload"
    /\ uploaded_file \in UploadDocuments
    /\ user_text = NoText
    /\ mic_text = None
    /\ submitted = TRUE
    /\ lm_request = << >>
    /\ lm_response = LmNone
    /\ job_request = NoRequest
    /\ job_response = NoResponse
    /\ bot_reply = << >>
    /\ shown = << >>
    /\ uncaught = "none"
    /\ calls = << >>
    /\ nChat = 0

SpecUpload == InitUpload /\ [][ResumeUpload]_vars

Uploaded == pc \in {"analyzing", "chat"}

Supported(file) == file.type \in {PDF_TYPE, DOCX_TYPE}

\* no page or paragraph of the document has a character that is not blank
EmptyAfterTrim(file) ==
    \A i \in 1..Len(file.units) :
        \/ file.units[i] = None
        \/ \A j \in 1..Len(file.units[i]) : IsSpace(file.units[i][j])

\* C12: for a readable PDF or DOCX with no text left after trimming the
\* extractor's result is a failure string (the cross mark and a reason),
\* never an empty or blank text, and the upload block issues no analysis
\* call for it and shows the failure.
C12_EmptyTextIsFailure ==
    (Uploaded /\ Supported(uploaded_file) /\ uploaded_file.readable
        /\ EmptyAfterTrim(uploaded_file)) =>
        /\ Len(resume_text) = 2
        /\ resume_text[1] = "[x]"
        /\ resume_text[2] \in { " No text found in DOCX.",
                               " No text found in PDF (might be scanned image)." }
        /\ pc = "chat"
        /\ calls = << >>
        /\ "Failed to extract usable text from resume." \in Range(shown)

\* C12 witness: a PDF whose only page is a blank was uploaded after a run
\* that had left a usable resume text; its extraction is a failure.
C12_Witness ==
    /\ Uploaded
    /\ nSub = 2
    /\ uploaded_file = File(PDF_TYPE, TRUE, << <<" ">> >>)
    /\ resume_text[1] = "[x]"
    /\ pc = "chat"

\* ------------------------------------------------------------ the utterance

\* the claim's utterance: the typed text if there is any, else the
\* transcript
Typed == user_text # << >>
Spoken == mic_text # <<"None">> /\ mic_text # << >>

NewTurns == SubSeq(messages, Len(run_start) + 1, Len(messages))

\* C13: in a submitted run the chat block runs exactly when text was typed
\* or spoken; the USER turn it appends holds the typed text if any was
\* typed and the transcript otherwise; with neither, the run appends no
\* USER turn, issues no call from the chat block, and leaves the history as
\* the upload block left it.
C13_TypedTextFirst ==
    (pc = "idle" /\ submitted) =>
        /\ (Typed \/ Spoken) =>
              /\ Cardinality(TurnsOf(USER, NewTurns)) = 1
              /\ \A i \in TurnsOf(USER, NewTurns) :
                    NewTurns[i].content = (IF Typed THEN user_text ELSE mic_text)
        /\ ~(Typed \/ Spoken) =>
              /\ TurnsOf(USER, NewTurns) = {}
              /\ \A i \in 1..Len(calls) : calls[i].by = "doc"
              /\ bot_reply = << >>
              /\ NewTurns \in { << >>, <<Turn(ASSISTANT, lm_response.text)>> }
              /\ (NewTurns # << >> => lm_response.ok)

\* C13 witness: text was typed and a different transcript was spoken in the
\* same submission, and the USER turn holds the typed text.
C13_Witness ==
    /\ pc = "idle"
    /\ Typed /\ Spoken /\ user_text # mic_text
    /\ \E i \in TurnsOf(USER, NewTurns) : NewTurns[i].content = user_text

\* ------------------------------------------------- the analysed resume text

\* the text an analysis prompt embeds, between the template and the last
\* line break
EmbeddedText(prompt) == SubSeq(prompt, 3, Len(prompt) - 1)

\* C14: whenever the upload block has an analysis call in flight, the
\* document of this run was accepted and extracted, and the prompt embeds
\* the text of that document, not a text kept from an earlier run.
C14_PromptFromThisDocument ==
    pc = "analyzing" =>
        /\ Supported(uploaded_file)
        /\ ~ExtractionFails(uploaded_file)
        /\ EmbeddedText(lm_request) = DocText(uploaded_file)

\* C15: for a readable PDF or DOCX with text left after trimming, whatever
\* its characters, the upload block issues exactly one language-model call,
\* with a prompt that embeds the whole extracted text.
C15_UsableTextIsAnalysed ==
    (Uploaded /\ Supported(uploaded_file) /\ uploaded_file.readable
        /\ ~EmptyAfterTrim(uploaded_file)) =>
        /\ pc = "analyzing"
        /\ calls = << Call("lm", "doc") >>
        /\ EmbeddedText(lm_request) = DocText(uploaded_file)

\* ------------------------------------------------- the chat block's calls

ByChat(call) == call.by = "chat"

\* the routing rule as C6 amended states it
JobRule(u) ==
    /\ \E w \in JobNouns : Occurs(w, u)
    /\ \E w \in ActionVerbs : Occurs(w, u)

ChatEntered ==
    submitted /\ (Typed \/ Spoken) /\ pc \in {"searching", "generating", "idle"}

\* C16: from the moment the chat block has issued its call until the run
\* is over, also after the call has failed, the chat block has issued
\* exactly one remote call: for an utterance the rule routes to the job
\* search, one call of the provider with the utterance itself as query and
\* "India" as location, and no language-model prompt of the chat block; for
\* any other utterance one language-model call, and no provider request and
\* no provider response.
C16_OneCallPerTurn ==
    ChatEntered =>
        LET u == IF Typed THEN user_text ELSE mic_text
            chat == SelectSeq(calls, ByChat)
        IN  /\ Len(chat) = 1
            /\ JobRule(u) =>
                  /\ chat[1].svc = "jobs"
                  /\ job_request.query = u
                  /\ job_request.location = "India"
                  /\ (Call("lm", "doc") \notin Range(calls)
                         => lm_request = << >> /\ lm_response = LmNone)
            /\ ~JobRule(u) =>
                  /\ chat[1].svc = "lm"
                  /\ job_request.query = << >>
                  /\ job_request.location = ""
                  /\ job_response.kind = "none"

\* C16 witness: the provider call of a JOB_SEARCH turn with capitals in the
\* utterance raised, and the run is over with that one call.
C16_Witness ==
    /\ pc = "idle"
    /\ ChatEntered
    /\ job_response.kind = "fault"
    /\ job_request.query = <<"G","e","t"," ","j","o","b">>
    /\ Len(SelectSeq(calls, ByChat)) = 1

\* ------------------------------------------------------------ the history

IsPrefix(a, b) == Len(a) <= Len(b) /\ SubSeq(b, 1, Len(a)) = a

\* C17: every step of every run leaves the history it found as a prefix of
\* the history it leaves: turns are only added at the end, none is removed,
\* moved or rewritten.
C17_AppendOnly == [][IsPrefix(messages, messages')]_vars

\* C17 witness: a later run has added an ASSISTANT turn at the end of a
\* history that earlier runs had filled with two turns or more.
C17_Witness ==
    /\ pc = "idle"
    /\ nSub >= 2
    /\ Len(run_start) >= 2
    /\ Len(messages) > Len(run_start)
    /\ IsPrefix(run_start, messages)
    /\ messages[Len(run_start) + 1].role = ASSISTANT

\* ------------------------------------------- document and text together

\* the upload block of this run ended in one of its two failures: no usable
\* text (line 143) or a failed analysis call (line 141)
UploadFailed ==
    \/ "Failed to extract usable text from resume." \in Range(shown)
    \/ "Gemini error" \in Range(shown)

\* C18: a submitted run with a document and text whose upload block failed
\* still ends, without an uncaught exception, with exactly the chat block's
\* two turns added to the history: the USER turn with the utterance and the
\* ASSISTANT turn with the reply.
C18_ChatRunsAfterFailedUpload ==
    (pc = "idle" /\ submitted /\ uploaded_file # NoFile /\ (Typed \/ Spoken)
        /\ UploadFailed) =>
        /\ uncaught = "none"
        /\ NewTurns = << Turn(USER, IF Typed THEN user_text ELSE mic_text),
                         Turn(ASSISTANT, bot_reply) >>

====
